---- MODULE Spec2Model ----
(***************************************************************************)
(* Model of the Polymarket Data API example scripts (src/examples).        *)
(*                                                                         *)
(* Four specifications share the variables below:                          *)
(*   SpecFmt  - the address / condition-id validators of utils.py applied  *)
(*              to bounded input strings;                                  *)
(*   SpecPnl  - the display formatters format_pnl / format_percentage      *)
(*              applied to bounded numbers;                                *)
(*   Spec     - one run of one example script: argument handling, the GET  *)
(*              requests it issues one after the other, and its exit;      *)
(*   SpecAgg  - the statistics that trader_profitability, analyze_trader,  *)
(*              trade_analysis, get_leaderboard, get_market_holders and    *)
(*              get_portfolio_value compute from bounded fetched lists.    *)
(*                                                                         *)
(* A Python str is a sequence of one-character strings.                    *)
(***************************************************************************)
EXTENDS Integers, Sequences, FiniteSets, TLC

VARIABLES
    \* ---- validator (utils.format_address / format_condition_id) ----
    text,       \* the string handed to the validator
    fn,         \* which validator has been applied: "none", "address", "condition"
    result,     \* what the validator did with text
    again,      \* what the validator did with its own result
    \* ---- display formatters (utils.format_pnl / format_percentage) ----
    number,     \* the number handed to the formatter
    shown,      \* the formatter applied and the string it returned
    \* ---- one run of one example script ----
    script,     \* the script that is run
    args,       \* its parsed command line
    pc,         \* "main": not started; "waiting": blocked in requests.get;
                \* "exited": the process has ended
    step,       \* which request of the run is in flight (index in Plan)
    requests,   \* the GET requests issued so far, in order
    replies,    \* how each of them ended
    fetched,    \* what each fetch left in the script's hands
    console,    \* the error and warning lines printed so far
    exit_code,  \* the process exit status, -1 while it runs
    crash,      \* the exception that ended the run unhandled, or "none"
    \* ---- the aggregation a script makes of what it fetched ----
    active,     \* the list of active positions
    closed,     \* the list of closed positions
    leaderboard,\* the list of leaderboard entries
    trades,     \* the list of trades
    holders,    \* the holders of one token of a market
    portfolio,  \* the portfolio value and the number of positions
    applied,    \* the aggregation applied: "none", "calculate_profitability",
                \* "analyze_trader", "get_leaderboard"
    stats       \* the statistics it computed

fmtvars == <<text, fn, result, again>>
pnlvars == <<number, shown>>
runvars == <<script, args, pc, step, requests, replies, fetched, console,
             exit_code, crash>>

aggvars == <<active, closed, leaderboard, trades, holders, portfolio, applied,
             stats>>

vars == <<fmtvars, pnlvars, runvars, aggvars>>

\* Python's None where a string is expected (no string: strings are
\* sequences of single characters)
None == <<"None">>

\* Python truth of an optional string: None and '' are false
Truthy(str) == str # None /\ str # <<>>

\* a command line with no option given; limit, offset and top_positions
\* are integers and stand at 0 where the script has no such option
NoArgs ==
    [address |-> None, username |-> None, market |-> None,
     detailed |-> FALSE, active_only |-> FALSE, include_payouts |-> FALSE,
     limit |-> 0, offset |-> 0, top_positions |-> 0]

\* no script is running (the validators or formatters are exercised alone)
NoRun ==
    /\ script = "none"
    /\ args = NoArgs
    /\ pc = "exited"
    /\ step = 0
    /\ requests = <<>>
    /\ replies = <<>>
    /\ fetched = <<>>
    /\ console = <<>>
    /\ exit_code = -1
    /\ crash = "none"

\* no aggregation is exercised
NoAggregate ==
    /\ active = <<>>
    /\ closed = <<>>
    /\ leaderboard = <<>>
    /\ trades = <<>>
    /\ holders = <<>>
    /\ portfolio = [value |-> 0, positions_count |-> 0]
    /\ applied = "none"
    /\ stats = <<>>

----------------------------------------------------------------------------
(* Bounds of the validator inputs *)

\* longest run of free characters in front of the filler of an input
MaxPre == 3

----------------------------------------------------------------------------
(* utils.py: format_address, format_condition_id *)

\* characters a validated value may consist of (utils.py line 48)
HexDigits == {"0", "1", "2", "3", "4", "5", "6", "7", "8", "9",
              "a", "b", "c", "d", "e", "f"}

\* str.lower() on one character
LowerChar(c) ==
    CASE c = "A" -> "a" [] c = "B" -> "b" [] c = "C" -> "c"
      [] c = "D" -> "d" [] c = "E" -> "e" [] c = "F" -> "f"
      [] c = "G" -> "g" [] c = "X" -> "x"
      [] OTHER -> c

\* the string as it came, not lowered
Unlowered(s) == s

\* str.lower()
Lower(s) == [i \in 1..Len(s) |-> LowerChar(s[i])]

\* a replace that looks for the upper-case prefix after the string was lowered
RECURSIVE ReplaceUpper0X(_)
ReplaceUpper0X(s) ==
    IF Len(s) < 2 THEN s
    ELSE IF s[1] = "0" /\ s[2] = "X"
         THEN ReplaceUpper0X(SubSeq(s, 3, Len(s)))
         ELSE <<s[1]>> \o ReplaceUpper0X(Tail(s))

\* str.replace('0x', ''): every non-overlapping occurrence, left to right,
\* in a single pass
RECURSIVE Replace0x(_)
Replace0x(s) ==
    IF Len(s) < 2 THEN s
    ELSE IF s[1] = "0" /\ s[2] = "x"
         THEN Replace0x(SubSeq(s, 3, Len(s)))
         ELSE <<s[1]>> \o Replace0x(Tail(s))

\* clean = address.lower().replace('0x', '')
Clean(s) == Replace0x(Lower(s))

\* a hex check that is satisfied by one good character
AnyHex(clean) == \E i \in 1..Len(clean) : clean[i] \in HexDigits

\* all(c in '0123456789abcdef' for c in clean)
AllHex(clean) == \A i \in 1..Len(clean) : clean[i] \in HexDigits

ADDRESS_LEN == 40
CONDITION_ID_LEN == 64

NoError == [msg |-> "none"]
Raised(err) == [ok |-> FALSE, value |-> <<>>, error |-> err]
Returned(v) == [ok |-> TRUE, value |-> v, error |-> NoError]

\* the checks in the wrong order: characters first, then length
CheckHexFirst(what, clean, n) ==
    IF ~AllHex(clean)
    THEN Raised([msg |-> "contains invalid hex characters", what |-> what])
    ELSE IF Len(clean) # n
    THEN Raised([msg |-> "Invalid length", what |-> what, len |-> Len(clean),
                 expected |-> n, got |-> Len(clean) + 2])
    ELSE Returned(<<"0", "x">> \o clean)

\* the two checks on clean and the return, common to both validators:
\* length first, then characters, then the value with its 0x prefix
Check(what, clean, n) ==
    IF Len(clean) # n
    THEN Raised([msg |-> "Invalid length", what |-> what, len |-> Len(clean),
                 expected |-> n, got |-> Len(clean) + 2])
    ELSE IF ~AllHex(clean)
    THEN Raised([msg |-> "contains invalid hex characters", what |-> what])
    ELSE Returned(<<"0", "x">> \o clean)

\* format_address without its guard against the empty string
format_address_unguarded(address) ==
    Check("Address", Clean(address), ADDRESS_LEN)

format_address(address) ==
    IF ~Truthy(address)
    THEN Raised([msg |-> "is required", what |-> "Address"])
    ELSE Check("Address", Clean(address), ADDRESS_LEN)

format_condition_id(condition_id) ==
    IF ~Truthy(condition_id)
    THEN Raised([msg |-> "is required", what |-> "Condition ID"])
    ELSE Check("Condition ID", Clean(condition_id), CONDITION_ID_LEN)

Validator(f, s) ==
    IF f = "address" THEN format_address(s) ELSE format_condition_id(s)

ExpectedLen(f) == IF f = "address" THEN ADDRESS_LEN ELSE CONDITION_ID_LEN

----------------------------------------------------------------------------
(* Inputs of the validators: free characters, a filler, free characters *)

EdgeChars == {"0", "x", "X", "a", "g"}
FillChars == {"a", "F"}

StringsUpTo(chars, n) == UNION {[1..k -> chars] : k \in 0..n}

Fill(c, n) == [i \in 1..n |-> c]

\* what may follow the filler: nothing, a character that is no hex digit,
\* a 0x that is no prefix
Suffixes == {<<>>, <<"g">>, <<"0", "x">>}

\* filler lengths that bring an input to, just under and just over the
\* two expected lengths, and the empty filler
FillLens ==
    {0} \cup UNION {(n - MaxPre - 2)..(n + 1) :
                       n \in {ADDRESS_LEN, CONDITION_ID_LEN}}

Inputs ==
    {pre \o Fill(c, n) \o post :
        pre \in StringsUpTo(EdgeChars, MaxPre),
        post \in Suffixes,
        c \in FillChars, n \in FillLens}

NotApplied == [ok |-> FALSE, value |-> <<>>, error |-> [msg |-> "not applied"]]

InitFmt ==
    /\ text \in Inputs
    /\ fn = "none"
    /\ result = NotApplied
    /\ again = NotApplied
    /\ number = [neg |-> FALSE, cents |-> 0]
    /\ shown = [by |-> "none", str |-> <<>>]
    /\ NoRun
    /\ NoAggregate

\* format_address(text)
FormatAddress ==
    /\ fn = "none"
    /\ fn' = "address"
    /\ result' = format_address(text)
    /\ UNCHANGED <<text, again, pnlvars, runvars, aggvars>>

\* format_condition_id(text)
FormatConditionId ==
    /\ fn = "none"
    /\ fn' = "condition"
    /\ result' = format_condition_id(text)
    /\ UNCHANGED <<text, again, pnlvars, runvars, aggvars>>

\* the validator applied to the value it returned
Reformat ==
    /\ fn # "none"
    /\ result.ok
    /\ again = NotApplied
    /\ again' = Validator(fn, result.value)
    /\ UNCHANGED <<text, fn, result, pnlvars, runvars, aggvars>>

NextFmt == FormatAddress \/ FormatConditionId \/ Reformat

SpecFmt == InitFmt /\ [][NextFmt]_vars

----------------------------------------------------------------------------
(* utils.py: format_pnl, format_percentage *)

\* A number is a Python float with two decimals: a sign bit and a magnitude
\* in hundredths.  The sign bit is set on negative numbers and on -0.0.

\* largest magnitude, in hundredths before scaling
MaxCents == 130

\* magnitudes are taken plain and a thousandfold, to reach the grouping comma
Scales == {1, 1000}

Numbers ==
    {[neg |-> b, cents |-> m * k] : b \in BOOLEAN, m \in 0..MaxCents, k \in Scales}

\* x > 0
Gt0(x) == ~x.neg /\ x.cents > 0
\* x < 0
Lt0(x) == x.neg /\ x.cents > 0
\* abs(x)
Abs(x) == [neg |-> FALSE, cents |-> x.cents]

Digit(d) == <<"0", "1", "2", "3", "4", "5", "6", "7", "8", "9">>[d + 1]

\* the decimal digits of a natural number
RECURSIVE Digits(_)
Digits(n) == IF n < 10 THEN <<Digit(n)>> ELSE Digits(n \div 10) \o <<Digit(n % 10)>>

\* the decimal digits with a comma between groups of three (format option ",")
RECURSIVE Grouped(_)
Grouped(n) ==
    IF n < 1000 THEN Digits(n)
    ELSE Grouped(n \div 1000) \o <<",">>
         \o <<Digit((n % 1000) \div 100), Digit((n % 100) \div 10), Digit(n % 10)>>

\* format(x, ',.2f') when comma, format(x, '.2f') otherwise: the sign bit
\* prints as "-", on -0.0 too
Fixed2(x, comma) ==
    (IF x.neg THEN <<"-">> ELSE <<>>)
    \o (IF comma THEN Grouped(x.cents \div 100) ELSE Digits(x.cents \div 100))
    \o <<".", Digit((x.cents % 100) \div 10), Digit(x.cents % 10)>>

ChartUp == "CHART_INCREASING"
ChartDown == "CHART_DECREASING"

format_pnl(pnl) ==
    IF Gt0(pnl) THEN <<"+", "$">> \o Fixed2(pnl, TRUE) \o <<" ", ChartUp>>
    ELSE IF Lt0(pnl) THEN <<"-", "$">> \o Fixed2(Abs(pnl), TRUE) \o <<" ", ChartDown>>
    ELSE <<"$">> \o Fixed2(pnl, TRUE)

format_percentage(percent) ==
    IF Gt0(percent) THEN <<"+">> \o Fixed2(percent, FALSE) \o <<"%", " ", ChartUp>>
    ELSE IF Lt0(percent) THEN Fixed2(percent, FALSE) \o <<"%", " ", ChartDown>>
    ELSE Fixed2(percent, FALSE) \o <<"%">>

InitPnl ==
    /\ number \in Numbers
    /\ shown = [by |-> "none", str |-> <<>>]
    /\ text = <<>>
    /\ fn = "none"
    /\ result = NotApplied
    /\ again = NotApplied
    /\ NoRun
    /\ NoAggregate

\* format_pnl(number)
FormatPnl ==
    /\ shown.by = "none"
    /\ shown' = [by |-> "format_pnl", str |-> format_pnl(number)]
    /\ UNCHANGED <<number, fmtvars, runvars, aggvars>>

\* format_percentage(number)
FormatPercentage ==
    /\ shown.by = "none"
    /\ shown' = [by |-> "format_percentage", str |-> format_percentage(number)]
    /\ UNCHANGED <<number, fmtvars, runvars, aggvars>>

NextPnl == FormatPnl \/ FormatPercentage

SpecPnl == InitPnl /\ [][NextPnl]_vars

----------------------------------------------------------------------------
(* The example scripts: command lines *)

Scripts ==
    {"analyze_trader", "get_leaderboard", "get_market_holders",
     "get_portfolio_value", "get_user_activity", "get_user_positions",
     "get_user_trades", "redeemable_parameter_demo", "trade_analysis",
     "trader_profitability"}

\* utils.EXAMPLE_ADDRESSES["trader1"], a well-formed address
TraderAddress ==
    <<"0", "x", "5", "6", "6", "8", "7", "b", "f", "4", "4", "7", "d", "b",
      "6", "f", "f", "a", "4", "2", "f", "f", "e", "2", "2", "0", "4", "a",
      "0", "5", "e", "d", "a", "a", "2", "0", "f", "5", "5", "8", "3", "9">>

\* test_addresses[0] of redeemable_parameter_demo.py: 39 hex digits
DemoAddress ==
    <<"0", "x", "7", "4", "2", "d", "3", "5", "c", "c", "6", "6", "3", "4",
      "c", "0", "5", "3", "2", "9", "2", "5", "a", "3", "b", "8", "4", "4",
      "b", "c", "9", "e", "7", "5", "9", "5", "f", "0", "b", "e", "e">>

\* utils.EXAMPLE_CONDITION_IDS["market1"], a well-formed condition id
MarketId ==
    <<"0", "x", "d", "d", "2", "2", "4", "7", "2", "e", "5", "5", "2", "9",
      "2", "0", "b", "8", "4", "3", "8", "1", "5", "8", "e", "a", "7", "2",
      "3", "8", "b", "f", "a", "d", "f", "a", "4", "f", "7", "3", "6", "a",
      "a", "4", "c", "e", "e", "9", "1", "a", "6", "b", "8", "6", "c", "3",
      "9", "e", "a", "d", "1", "1", "0", "9", "1", "7">>

\* the user name of the usage examples
Noctus == <<"n", "o", "c", "t", "u", "s">>

\* values of an address argument: well-formed, malformed, empty
AddressArgs == {TraderAddress, DemoAddress, <<>>}

\* the default= of a script's --limit option
DefaultLimit(s) ==
    CASE s = "get_leaderboard" -> 25
      [] s = "get_market_holders" -> 10
      [] s = "get_user_positions" -> 20
      [] s = "trade_analysis" -> 500
      [] OTHER -> 50

\* values of --limit (type=int): the default, and values below, at and
\* above the maxima the API documents (20, 50, 500, 10000)
LimitArgs(s) ==
    {DefaultLimit(s)} \cup {-1, 0, 1, 20, 21, 50, 51, 500, 501, 10000, 10001}

\* values of --offset (type=int, default 0)
OffsetArgs == {0, 50}

\* the command lines argparse lets through, per script (--address and
\* --market are required=True where the script declares them so)
ArgsOf(s) ==
    CASE s = "get_leaderboard" ->
            {[NoArgs EXCEPT !.limit = n] : n \in LimitArgs(s)}
      [] s = "get_market_holders" ->
            {[NoArgs EXCEPT !.market = m, !.limit = n] :
                m \in {MarketId, TraderAddress, <<>>}, n \in LimitArgs(s)}
      [] s = "analyze_trader" ->
            {[NoArgs EXCEPT !.address = a, !.top_positions = 5] : a \in AddressArgs}
      [] s = "get_user_activity" ->
            {[NoArgs EXCEPT !.address = a, !.limit = n, !.offset = o] :
                a \in AddressArgs, n \in LimitArgs(s), o \in OffsetArgs}
      [] s = "get_user_trades" ->
            {[NoArgs EXCEPT !.address = a, !.limit = n] :
                a \in AddressArgs, n \in LimitArgs(s)}
      [] s = "get_portfolio_value" ->
            {[NoArgs EXCEPT !.address = a, !.detailed = d] :
                a \in AddressArgs, d \in BOOLEAN}
      [] s = "get_user_positions" ->
            {[NoArgs EXCEPT !.address = a, !.active_only = x, !.include_payouts = y,
                            !.limit = n] :
                a \in AddressArgs, x \in BOOLEAN, y \in BOOLEAN, n \in LimitArgs(s)}
      [] s = "trade_analysis" ->
            {[NoArgs EXCEPT !.address = a, !.username = u, !.limit = n] :
                a \in AddressArgs \cup {None}, u \in {None, Noctus},
                n \in LimitArgs(s)}
      [] s = "redeemable_parameter_demo" ->
            {[NoArgs EXCEPT !.address = a] : a \in AddressArgs \cup {None}}
      [] OTHER ->
            {[NoArgs EXCEPT !.address = a] : a \in AddressArgs}

----------------------------------------------------------------------------
(* The example scripts: the places where a GET request is issued *)

\* Each place is described by
\*   endpoint    the resource path of the URL
\*   timeout     the timeout= argument of requests.get: {seconds}, or {} when
\*               the call passes none
\*   guard       the except clause around the call: "RequestException",
\*               "bare" (except:), or "none" (no try)
\*   logs        whether the except clause prints a message
\*   default     what the helper returns from its except clause
\*   formats     the validator the helper applies to its argument while it
\*               builds the parameters ("none" when it takes it as given)
\*   redeemable  the redeemable parameter, "absent" when not sent
\*   limit       the limit parameter: {n}, or {} when not sent
\*   offset      the offset parameter: {n}, or {} when not sent

Site(e, t, g, l, d, f, r, n, o) ==
    [endpoint |-> e, timeout |-> t, guard |-> g, logs |-> l, default |-> d,
     formats |-> f, redeemable |-> r, limit |-> n, offset |-> o]

\* Python's min of two integers
Min(a, b) == IF a <= b THEN a ELSE b

\* analyze_trader.py
AT_get_portfolio_value ==
    Site("/value", {10}, "bare", FALSE, "0", "none", "absent",
         {}, {})
\* a variant of AT_get_positions without the try around the request
AT_get_positions_unguarded(a) ==
    Site("/positions", {15}, "none", FALSE, "[]", "none", "absent",
         {a.top_positions * 2}, {})

AT_get_positions(a) ==
    Site("/positions", {15}, "bare", FALSE, "[]", "none", "absent",
         {a.top_positions * 2}, {})
AT_get_closed_positions ==
    Site("/closed-positions", {15}, "bare", FALSE, "[]", "none", "absent",
         {50}, {})
AT_get_recent_trades ==
    Site("/trades", {15}, "bare", FALSE, "[]", "none", "absent",
         {100}, {})
AT_get_markets_traded ==
    Site("/traded", {10}, "bare", FALSE, "0", "none", "absent",
         {}, {})

\* get_portfolio_value.py
PV_get_portfolio_value ==
    Site("/value", {10}, "RequestException", TRUE, "None", "address", "absent",
         {}, {})
PV_get_user_positions_count ==
    Site("/positions", {10}, "bare", FALSE, "0", "address", "absent",
         {1}, {})
PV_get_markets_traded_count ==
    Site("/traded", {10}, "bare", FALSE, "0", "address", "absent",
         {}, {})

\* trader_profitability.py
TP_get_active_positions ==
    Site("/positions", {15}, "RequestException", TRUE, "[]", "none", "false",
         {500}, {})
TP_get_closed_positions ==
    Site("/closed-positions", {15}, "RequestException", TRUE, "[]", "none", "absent",
         {50}, {})

\* get_leaderboard_pnl is defined in trader_profitability.py, and nothing in
\* the script calls it
TP_get_leaderboard_pnl ==
    Site("/v1/leaderboard", {15}, "RequestException", TRUE, "None", "address", "absent",
         {1}, {})

\* redeemable_parameter_demo.py: three calls without try and without timeout
RD_query_active ==
    Site("/positions", {}, "none", FALSE, "None", "none", "false",
         {100}, {})
RD_query_redeemable ==
    Site("/positions", {}, "none", FALSE, "None", "none", "true",
         {100}, {})
RD_query_all ==
    Site("/positions", {}, "none", FALSE, "None", "none", "absent",
         {100}, {})

\* trade_analysis.py
TA_analyze_trades(a) ==
    Site("/trades", {20}, "RequestException", TRUE, "None", "address", "absent",
         {a.limit}, {})
TA_analyze_closed_positions ==
    Site("/closed-positions", {15}, "RequestException", TRUE, "None", "address", "absent",
         {50}, {})
TA_analyze_open_positions ==
    Site("/positions", {15}, "RequestException", TRUE, "None", "address", "false",
         {100}, {})

\* a variant of LB_get_leaderboard that sends the limit as it was asked
LB_get_leaderboard_unclamped(a) ==
    Site("/v1/leaderboard", {15}, "RequestException", TRUE, "None", "none", "absent",
         {a.limit}, {})

\* get_leaderboard.py
LB_get_leaderboard(a) ==
    Site("/v1/leaderboard", {15}, "RequestException", TRUE, "None", "none", "absent",
         {Min(a.limit, 50)}, {})

\* get_market_holders.py
MH_get_market_holders(a) ==
    Site("/holders", {15}, "RequestException", TRUE, "None", "condition", "absent",
         {Min(a.limit, 20)}, {})

\* get_user_activity.py
UA_get_user_activity(a) ==
    Site("/activity", {15}, "RequestException", TRUE, "None", "address", "absent",
         {a.limit}, {a.offset})

\* a variant of UP_get_user_positions that sends redeemable only when it
\* is true ("if redeemable:" for "if redeemable is not None:")
UP_get_user_positions_if_true(a) ==
    Site("/positions", {15}, "RequestException", TRUE, "None", "address",
         IF ~a.active_only /\ a.include_payouts THEN "true" ELSE "absent",
         {a.limit}, {})

\* get_user_positions.py: redeemable is None, False or True by the flags,
\* and is sent as str(redeemable).lower() unless it is None
UP_get_user_positions(a) ==
    Site("/positions", {15}, "RequestException", TRUE, "None", "address",
         IF a.active_only THEN "false"
         ELSE IF a.include_payouts THEN "true" ELSE "absent",
         {a.limit}, {})

\* get_user_trades.py
UT_get_user_trades(a) ==
    Site("/trades", {15}, "RequestException", TRUE, "None", "address", "absent",
         {a.limit}, {})

\* the fetches a script's main makes, in the order it makes them
Plan(s, a) ==
    CASE s = "analyze_trader" ->
            <<AT_get_portfolio_value, AT_get_positions(a), AT_get_closed_positions,
              AT_get_recent_trades, AT_get_markets_traded>>
      [] s = "get_portfolio_value" ->
            IF a.detailed
            THEN <<PV_get_portfolio_value, PV_get_user_positions_count,
                   PV_get_markets_traded_count>>
            ELSE <<PV_get_portfolio_value>>
      [] s = "trader_profitability" ->
            <<TP_get_active_positions, TP_get_closed_positions>>
      [] s = "redeemable_parameter_demo" ->
            <<RD_query_active, RD_query_redeemable, RD_query_all>>
      [] s = "trade_analysis" ->
            <<TA_analyze_trades(a), TA_analyze_closed_positions,
              TA_analyze_open_positions>>
      [] s = "get_leaderboard" -> <<LB_get_leaderboard(a)>>
      [] s = "get_market_holders" -> <<MH_get_market_holders(a)>>
      [] s = "get_user_activity" -> <<UA_get_user_activity(a)>>
      [] s = "get_user_positions" -> <<UP_get_user_positions(a)>>
      [] s = "get_user_trades" -> <<UT_get_user_trades(a)>>

\* the string a script passes to its fetch helpers
\*   analyze_trader, trader_profitability: the formatted address
\*   trade_analysis: the user name when one is given, else the raw address
\*   redeemable_parameter_demo: argv[1], or test_addresses[0] without one
\*   get_market_holders: the raw --market; the others: the raw --address
Subject(s, a) ==
    CASE s \in {"analyze_trader", "trader_profitability"} ->
            format_address(a.address).value
      [] s = "trade_analysis" ->
            IF Truthy(a.username) THEN a.username ELSE a.address
      [] s = "redeemable_parameter_demo" ->
            IF a.address = None THEN DemoAddress ELSE a.address
      [] s = "get_market_holders" -> a.market
      [] s = "get_leaderboard" -> None
      [] OTHER -> a.address

----------------------------------------------------------------------------
(* The example scripts: one run *)

\* most records in one response
MaxItems == 2

\* values of a P&L field of a record
PnlVals == {-1, 0, 1}

\* the JSON objects with some of the given keys, each with one of the values
Objects(keys, values) == UNION {[present -> values] : present \in SUBSET keys}

\* the records an endpoint returns to a script, reduced to the fields on
\* which the script's requests and exit status depend, each of which a
\* record may lack: for trader_profitability cashPnl and realizedPnl of a
\* position and realizedPnl of a closed position; the other scripts only
\* print what they receive and return from main
Items(s, endpoint) ==
    IF s = "trader_profitability"
    THEN CASE endpoint = "/positions" -> Objects({"cashPnl", "realizedPnl"}, PnlVals)
           [] endpoint = "/closed-positions" -> Objects({"realizedPnl"}, PnlVals)
           [] OTHER -> Objects({}, {})
    ELSE Objects({}, {})

\* dict.get(key, default)
Get(p, key, default) == IF key \in DOMAIN p THEN p[key] ELSE default

\* the bodies of a 2xx response
Payloads(s, endpoint) == StringsUpTo(Items(s, endpoint), MaxItems)

\* the ways a GET request fails: no connection, no answer within the
\* timeout, an answer with a status that is not 2xx
Failures == {"ConnectionError", "Timeout", "HTTPError"}

Data(items) == [kind |-> "data", items |-> items]
Default(d) == [kind |-> d, items |-> <<>>]

RECURSIVE SumField(_, _)
\* sum(p.get(field, 0) for p in items)
SumField(items, field) ==
    IF items = <<>> THEN 0
    ELSE Get(items[1], field, 0) + SumField(Tail(items), field)

\* trader_profitability.calculate_profitability: total_pnl
total_pnl(active_positions, closed_positions) ==
    LET unrealized_pnl == SumField(active_positions, "cashPnl")
        unrealized_from_partials == SumField(active_positions, "realizedPnl")
        realized_pnl == SumField(closed_positions, "realizedPnl")
        total_realized == realized_pnl + unrealized_from_partials
    IN  unrealized_pnl + total_realized

\* a variant of FinalCode in which break-even counts as a profit
FinalCodeBreakEvenIsProfit(s, got) ==
    IF s = "trader_profitability"
    THEN IF total_pnl(got[1].items, got[2].items) >= 0 THEN 0 ELSE 1
    ELSE 0

\* the exit status of a run that reaches the end of main
\*   trader_profitability: sys.exit(0 if stats["is_profitable"] else 1)
\*   the others: main returns
FinalCode(s, got) ==
    IF s = "trader_profitability"
    THEN IF total_pnl(got[1].items, got[2].items) > 0 THEN 0 ELSE 1
    ELSE 0

\* what main does with the command line before it fetches anything
\*   go: carry on; exit: print and sys.exit(1); raise: an exception nobody
\*   catches
MainCheck(s, a) ==
    LET go == [verdict |-> "go", lines |-> <<>>]
        refuse(r) ==
            IF r.ok THEN go
            ELSE [verdict |-> "exit",
                  lines |-> <<[kind |-> "validation", error |-> r.error]>>]
    IN  CASE s = "get_leaderboard" -> go
          [] s = "get_market_holders" -> refuse(format_condition_id(a.market))
          [] s = "get_user_positions" ->
                IF a.active_only /\ a.include_payouts
                THEN [verdict |-> "exit", lines |-> <<[kind |-> "usage"]>>]
                ELSE refuse(format_address(a.address))
          [] s = "trade_analysis" ->
                IF ~Truthy(a.address) /\ ~Truthy(a.username)
                THEN [verdict |-> "exit", lines |-> <<[kind |-> "usage"]>>]
                ELSE IF Truthy(a.username) THEN go
                ELSE refuse(format_address(a.address))
          [] s = "redeemable_parameter_demo" ->
                IF format_address(Subject(s, a)).ok THEN go
                ELSE [verdict |-> "raise", lines |-> <<>>]
          [] OTHER -> refuse(format_address(a.address))

\* the user / market parameter of a request
UserParam(s, a, site) ==
    IF s = "get_leaderboard" THEN None
    ELSE IF site.formats # "none" THEN Validator(site.formats, Subject(s, a)).value
    ELSE IF s = "redeemable_parameter_demo" THEN format_address(Subject(s, a)).value
    ELSE Subject(s, a)

Request(s, a, site) ==
    [endpoint |-> site.endpoint, timeout |-> site.timeout,
     redeemable |-> site.redeemable, limit |-> site.limit,
     offset |-> site.offset, user |-> UserParam(s, a, site)]

\* the process ends: normally with a status, or on an exception nobody
\* caught (traceback, status 1)
Exit(code, exc, lines) ==
    /\ pc' = "exited"
    /\ exit_code' = code
    /\ crash' = exc
    /\ console' = console \o lines
    /\ UNCHANGED <<step, requests>>

\* the k-th fetch helper is called: it builds its parameters (a validator
\* that raises there ends the run, no handler catches ValueError) and blocks
\* in requests.get
Call(k, lines) ==
    LET site == Plan(script, args)[k] IN
    IF site.formats # "none" /\ ~Validator(site.formats, Subject(script, args)).ok
    THEN Exit(1, "ValueError", lines)
    ELSE /\ requests' = Append(requests, Request(script, args, site))
         /\ step' = k
         /\ pc' = "waiting"
         /\ console' = console \o lines
         /\ UNCHANGED <<exit_code, crash>>

\* main from its first line to the first request, or to its exit
Start ==
    /\ pc = "main"
    /\ LET chk == MainCheck(script, args) IN
         CASE chk.verdict = "go" -> Call(1, <<>>)
           [] chk.verdict = "exit" -> Exit(1, "none", chk.lines)
           [] chk.verdict = "raise" -> Exit(1, "ValueError", <<>>)
    /\ UNCHANGED <<script, args, replies, fetched, fmtvars, pnlvars, aggvars>>

\* a variant of PaginationHint that needs more activities than the limit
PaginationHintIfMore(s, a, items) ==
    IF s = "get_user_activity" /\ items # <<>> /\ Len(items) > a.limit
    THEN <<[kind |-> "pagination_hint", offset |-> a.offset + a.limit]>>
    ELSE <<>>

\* get_user_activity.main: the tip printed under a displayed result when
\* len(activities) >= args.limit, naming --offset {args.offset + args.limit}
PaginationHint(s, a, items) ==
    IF s = "get_user_activity" /\ items # <<>> /\ Len(items) >= a.limit
    THEN <<[kind |-> "pagination_hint", offset |-> a.offset + a.limit]>>
    ELSE <<>>

\* a variant of Continue that asks again for a dataset it did not get
ContinueRetrying(k, got, lines) ==
    IF got[Len(got)].kind # "data" THEN Call(k, lines)
    ELSE IF k < Len(Plan(script, args)) THEN Call(k + 1, lines)
    ELSE Exit(FinalCode(script, got), "none", lines)

\* main after fetch k has returned got[k]: the next fetch, or the report
\* and the end of the process
\*   get_portfolio_value returns at once when the value is None
\*   a single-fetch script prints that nothing was found when what it got is
\*   empty or None
Continue(k, got, lines) ==
    LET plan == Plan(script, args)
        nothing == got[k].items = <<>>
    IN  IF script = "get_portfolio_value" /\ k = 1 /\ got[1].kind = "None"
        THEN Exit(0, "none", lines \o <<[kind |-> "no_data"]>>)
        ELSE IF k < Len(plan) THEN Call(k + 1, lines)
        ELSE Exit(FinalCode(script, got), "none",
                  lines \o (IF Len(plan) = 1 /\ nothing /\ script # "get_portfolio_value"
                            THEN <<[kind |-> "no_data"]>> ELSE <<>>)
                        \o PaginationHint(script, args, got[k].items))

\* a 2xx response with a body arrives
ReplyOk ==
    /\ pc = "waiting"
    /\ \E items \in Payloads(script, Plan(script, args)[step].endpoint) :
          /\ replies' = Append(replies, "ok")
          /\ fetched' = Append(fetched, Data(items))
          /\ Continue(step, fetched', <<>>)
    /\ UNCHANGED <<script, args, fmtvars, pnlvars, aggvars>>

\* the request fails
\*   inside try/except: the except clause prints (or not) and returns the
\*   helper's default
\*   redeemable_parameter_demo, no try: an exception of requests.get ends
\*   the run; a non-2xx status is seen by "if response.ok", printed, and the
\*   script goes on
\*   a request without timeout never times out
ReplyFails ==
    /\ pc = "waiting"
    /\ \E f \in Failures :
        LET site == Plan(script, args)[step]
            line == <<[kind |-> "fetch_error", step |-> step, failure |-> f]>>
        IN  /\ f = "Timeout" => site.timeout # {}
            /\ replies' = Append(replies, f)
            /\ IF site.guard = "none" /\ f # "HTTPError"
               THEN /\ fetched' = fetched
                    /\ Exit(1, f, <<>>)
               ELSE /\ fetched' = Append(fetched, Default(site.default))
                    /\ Continue(step, fetched',
                                IF site.logs \/ site.guard = "none" THEN line ELSE <<>>)
    /\ UNCHANGED <<script, args, fmtvars, pnlvars, aggvars>>

Init ==
    /\ script \in Scripts
    /\ args \in ArgsOf(script)
    /\ pc = "main"
    /\ step = 0
    /\ requests = <<>>
    /\ replies = <<>>
    /\ fetched = <<>>
    /\ console = <<>>
    /\ exit_code = -1
    /\ crash = "none"
    /\ text = <<>>
    /\ fn = "none"
    /\ result = NotApplied
    /\ again = NotApplied
    /\ number = [neg |-> FALSE, cents |-> 0]
    /\ shown = [by |-> "none", str |-> <<>>]
    /\ NoAggregate

Next == Start \/ ReplyOk \/ ReplyFails

Spec == Init /\ [][Next]_vars

----------------------------------------------------------------------------
(* The example scripts: what they compute from the lists they fetched *)

\* most entries in a leaderboard
MaxTraders == 3

\* values of the pnl field of a leaderboard entry
PnlAmounts == {-5, 0, 10}

\* [p for p in items if p.get(field, 0) > 0], as the places in the list
Winning(items, field) == {i \in DOMAIN items : Get(items[i], field, 0) > 0}

\* a variant of Losing that takes a P&L of exactly 0 for a loss
LosingOrEven(items, field) == {i \in DOMAIN items : Get(items[i], field, 0) <= 0}

\* [p for p in items if p.get(field, 0) < 0], as the places in the list
Losing(items, field) == {i \in DOMAIN items : Get(items[i], field, 0) < 0}

\* a variant of WinRate without the test of total_positions
WinRateUnguarded(total_winning, total_positions) ==
    [num |-> total_winning * 100, den |-> total_positions]

\* total_winning / total_positions * 100, as a fraction; the integer 0 when
\* there is no position
WinRate(total_winning, total_positions) ==
    IF total_positions > 0
    THEN [num |-> total_winning * 100, den |-> total_positions]
    ELSE [num |-> 0, den |-> 1]

\* a variant of is_profitable that takes break-even for a profit
is_profitable_or_even(total) == total >= 0

\* stats["is_profitable"]
is_profitable(total) == total > 0

\* the verdict line of display_profitability and of analyze_trader's main
verdict(total) ==
    IF total > 0 THEN "PROFITABLE"
    ELSE IF total < 0 THEN "IN LOSS"
    ELSE "BREAK EVEN"

\* trader_profitability.calculate_profitability, from the two lists on
calculate_profitability(active_positions, closed_positions) ==
    LET unrealized_pnl == SumField(active_positions, "cashPnl")
        unrealized_from_partials == SumField(active_positions, "realizedPnl")
        realized_pnl == SumField(closed_positions, "realizedPnl")
        total_realized == realized_pnl + unrealized_from_partials
        winning_active == Winning(active_positions, "cashPnl")
        losing_active == Losing(active_positions, "cashPnl")
        winning_closed == Winning(closed_positions, "realizedPnl")
        losing_closed == Losing(closed_positions, "realizedPnl")
        total_positions == Len(active_positions) + Len(closed_positions)
        total_winning == Cardinality(winning_active) + Cardinality(winning_closed)
        total_losing == Cardinality(losing_active) + Cardinality(losing_closed)
    IN  [total_pnl |-> total_pnl(active_positions, closed_positions),
         unrealized_pnl |-> unrealized_pnl,
         realized_pnl |-> total_realized,
         active_positions |-> Len(active_positions),
         closed_positions |-> Len(closed_positions),
         total_positions |-> total_positions,
         winning_active |-> Cardinality(winning_active),
         losing_active |-> Cardinality(losing_active),
         winning_closed |-> Cardinality(winning_closed),
         losing_closed |-> Cardinality(losing_closed),
         total_winning |-> total_winning,
         total_losing |-> total_losing,
         win_rate |-> WinRate(total_winning, total_positions),
         is_profitable |-> is_profitable(total_pnl(active_positions, closed_positions)),
         verdict |-> verdict(total_pnl(active_positions, closed_positions))]

\* analyze_trader.analyze_trader, from the positions and closed positions
\* on: a key is in stats only when the code sets it
analyze_trader(positions, closed_positions) ==
    LET unrealized_pnl ==
            IF positions # <<>> THEN SumField(positions, "cashPnl") ELSE 0
        realized_from_partials ==
            IF positions # <<>> THEN SumField(positions, "realizedPnl") ELSE 0
        realized_pnl ==
            IF closed_positions # <<>>
            THEN SumField(closed_positions, "realizedPnl") ELSE 0
        total_realized == realized_pnl + realized_from_partials
        total == unrealized_pnl + total_realized
        total_positions == Len(positions) + Len(closed_positions)
        of_positions ==
            IF positions # <<>>
            THEN [total_unrealized_pnl |-> unrealized_pnl,
                  winning_positions |-> Cardinality(Winning(positions, "cashPnl")),
                  losing_positions |-> Cardinality(Losing(positions, "cashPnl"))]
            ELSE <<>>
        of_closed ==
            IF closed_positions # <<>>
            THEN [closed_positions_count |-> Len(closed_positions),
                  winning_closed |->
                      Cardinality(Winning(closed_positions, "realizedPnl")),
                  losing_closed |->
                      Cardinality(Losing(closed_positions, "realizedPnl"))]
            ELSE <<>>
        counted == of_positions @@ of_closed
        of_rate ==
            IF total_positions > 0
            THEN [win_rate |->
                     WinRate(Get(counted, "winning_positions", 0)
                                 + Get(counted, "winning_closed", 0),
                             total_positions)]
            ELSE <<>>
    IN  [active_positions |-> Len(positions),
         total_realized_pnl |-> total_realized,
         total_pnl |-> total,
         is_profitable |-> is_profitable(total),
         verdict |-> verdict(total)] @@ counted @@ of_rate

\* a whole number of dollars as the formatters take it
Dollars(n) == [neg |-> n < 0, cents |-> (IF n < 0 THEN -n ELSE n) * 100]

\* a variant of leaderboard_summary that adds up the volumes
leaderboard_summary_of_vol(entries) ==
    LET total == SumField(entries, "vol")
    IN  [total_pnl |-> total,
         total_line |-> format_pnl(Dollars(total)),
         traders |-> Len(entries)]

\* most trades in one response
MaxTrades == 3

\* the trades of a response, reduced to what analyze_trades reads: a trade
\* of one of two markets, bought or sold at a price for a size, or a trade
\* without conditionId
Trades ==
    [conditionId : {"m1", "m2"}, side : {"BUY", "SELL"}, price : {1, 2},
     size : {1, 2}]
        \cup {[side |-> "BUY", price |-> 1, size |-> 1]}

\* trade.get('conditionId') is there and not empty
HasMarket(trade) == "conditionId" \in DOMAIN trade /\ trade["conditionId"] # ""

RECURSIVE MarketsOf(_)
\* the keys of market_trades, in the order in which they first occur
MarketsOf(list) ==
    IF list = <<>> THEN <<>>
    ELSE LET before == MarketsOf(SubSeq(list, 1, Len(list) - 1))
             trade == list[Len(list)]
         IN  IF HasMarket(trade)
                 /\ \A i \in DOMAIN before : before[i] # trade["conditionId"]
             THEN Append(before, trade["conditionId"])
             ELSE before

\* a quotient as Python computes it, kept as numerator and denominator; a
\* denominator of 0 is a ZeroDivisionError
Quotient(n, d) == [num |-> n, den |-> d]

\* a < b for two quotients with positive denominators
Less(a, b) == a.num * b.den < b.num * a.den

\* a variant of FailedTrade that takes the very same mean price for a loss
FailedTradeOrEven(trades_list) ==
    LET IsBuy(t) == Get(t, "side", "") = "BUY"
        IsSell(t) == Get(t, "side", "") = "SELL"
        buys == SelectSeq(trades_list, IsBuy)
        sells == SelectSeq(trades_list, IsSell)
        avg_buy == Quotient(SumField(buys, "price"), Len(buys))
        avg_sell == Quotient(SumField(sells, "price"), Len(sells))
        total_bought == SumField(buys, "size")
        total_sold == SumField(sells, "size")
    IN  IF buys # <<>> /\ sells # <<>> /\ ~Less(avg_buy, avg_sell)
        THEN <<[avg_buy |-> avg_buy, avg_sell |-> avg_sell,
                loss |-> Quotient((avg_buy.num * avg_sell.den
                                      - avg_sell.num * avg_buy.den)
                                     * Min(total_bought, total_sold),
                                  avg_buy.den * avg_sell.den),
                buy_count |-> Len(buys), sell_count |-> Len(sells)]>>
        ELSE <<>>

\* analyze_trades, the body of its loop for one market: the entry it
\* appends to failed_trades, if any
FailedTrade(trades_list) ==
    LET IsBuy(t) == Get(t, "side", "") = "BUY"
        IsSell(t) == Get(t, "side", "") = "SELL"
        buys == SelectSeq(trades_list, IsBuy)
        sells == SelectSeq(trades_list, IsSell)
        avg_buy == Quotient(SumField(buys, "price"), Len(buys))
        avg_sell == Quotient(SumField(sells, "price"), Len(sells))
        total_bought == SumField(buys, "size")
        total_sold == SumField(sells, "size")
    IN  IF buys # <<>> /\ sells # <<>> /\ Less(avg_sell, avg_buy)
        THEN <<[avg_buy |-> avg_buy, avg_sell |-> avg_sell,
                loss |-> Quotient((avg_buy.num * avg_sell.den
                                      - avg_sell.num * avg_buy.den)
                                     * Min(total_bought, total_sold),
                                  avg_buy.den * avg_sell.den),
                buy_count |-> Len(buys), sell_count |-> Len(sells)]>>
        ELSE <<>>

RECURSIVE FailedTrades(_, _)
\* analyze_trades, its loop over the markets
FailedTrades(list, markets) ==
    IF markets = <<>> THEN <<>>
    ELSE LET InMarket(t) == HasMarket(t) /\ t["conditionId"] = markets[1]
         IN  FailedTrade(SelectSeq(list, InMarket))
                 \o FailedTrades(list, Tail(markets))

\* trade_analysis.analyze_trades, from the fetched trades on
analyze_trades(list) ==
    [total_trades |-> Len(list),
     failed_trades |-> FailedTrades(list, MarketsOf(list)),
     markets_traded |-> Len(MarketsOf(list))]

\* a variant of analyze_closed_positions that takes the losses off the gains
analyze_closed_positions_minus(positions) ==
    LET IsWon(p) == Get(p, "realizedPnl", 0) > 0
        IsLost(p) == ~IsWon(p) /\ Get(p, "realizedPnl", 0) < 0
        won_bets == SelectSeq(positions, IsWon)
        lost_bets == SelectSeq(positions, IsLost)
        total_won == SumField(won_bets, "realizedPnl")
        total_lost == SumField(lost_bets, "realizedPnl")
    IN  [total_closed |-> Len(positions),
         won_bets |-> won_bets,
         lost_bets |-> lost_bets,
         win_count |-> Len(won_bets),
         loss_count |-> Len(lost_bets),
         total_won |-> total_won,
         total_lost |-> total_lost,
         net_pnl |-> total_won - total_lost]

\* trade_analysis.analyze_closed_positions, from the fetched list on
analyze_closed_positions(positions) ==
    LET IsWon(p) == Get(p, "realizedPnl", 0) > 0
        IsLost(p) == ~IsWon(p) /\ Get(p, "realizedPnl", 0) < 0
        won_bets == SelectSeq(positions, IsWon)
        lost_bets == SelectSeq(positions, IsLost)
        total_won == SumField(won_bets, "realizedPnl")
        total_lost == SumField(lost_bets, "realizedPnl")
    IN  [total_closed |-> Len(positions),
         won_bets |-> won_bets,
         lost_bets |-> lost_bets,
         win_count |-> Len(won_bets),
         loss_count |-> Len(lost_bets),
         total_won |-> total_won,
         total_lost |-> total_lost,
         net_pnl |-> total_won + total_lost]

\* trade_analysis.display_analysis: the win rate over the closed positions
\* and the win rate over the resolved ones, each where the code computes it
display_win_rates(closed_stats) ==
    LET total_wins == closed_stats.win_count
        total_losses == closed_stats.loss_count
        total_resolved == total_wins + total_losses
    IN  (IF closed_stats.total_closed > 0
         THEN <<Quotient(closed_stats.win_count * 100, closed_stats.total_closed)>>
         ELSE <<>>)
        \o (IF closed_stats.total_closed > 0 /\ total_resolved > 0
            THEN <<Quotient(total_wins * 100, total_resolved)>>
            ELSE <<>>)

\* values of the amount of a holder
Amounts == {0, 1, 2}

\* get_market_holders.main: the percentage of each holder of a token
holder_percentages(list) ==
    LET total_amount == SumField(list, "amount")
    IN  [i \in DOMAIN list |->
            IF total_amount > 0
            THEN Quotient(Get(list[i], "amount", 0) * 100, total_amount)
            ELSE Quotient(0, 1)]

\* values of the portfolio value
Values == {0, 5}

\* get_portfolio_value.main --detailed: the average position size, where
\* the code computes it
average_position(value, positions_count) ==
    IF positions_count > 0 THEN <<Quotient(value, positions_count)>> ELSE <<>>

\* get_leaderboard.main: the summary under the table, with the line of
\* "Total P&L: " as format_pnl prints it
leaderboard_summary(entries) ==
    LET total == SumField(entries, "pnl")
    IN  [total_pnl |-> total,
         total_line |-> format_pnl(Dollars(total)),
         traders |-> Len(entries)]

InitAgg ==
    /\ \/ /\ active \in StringsUpTo(Items("trader_profitability", "/positions"), MaxItems)
          /\ closed \in StringsUpTo(Items("trader_profitability", "/closed-positions"),
                                    MaxItems)
          /\ leaderboard = <<>>
          /\ trades = <<>>
       \/ /\ active = <<>>
          /\ closed = <<>>
          /\ leaderboard \in StringsUpTo(Objects({"pnl"}, PnlAmounts), MaxTraders)
          /\ trades = <<>>
       \/ /\ active = <<>>
          /\ closed = <<>>
          /\ leaderboard = <<>>
          /\ trades \in StringsUpTo(Trades, MaxTrades)
    /\ \/ /\ holders = <<>>
          /\ portfolio = [value |-> 0, positions_count |-> 0]
       \/ /\ active = <<>> /\ closed = <<>> /\ leaderboard = <<>> /\ trades = <<>>
          /\ holders \in StringsUpTo(Objects({"amount"}, Amounts), MaxItems)
          /\ portfolio = [value |-> 0, positions_count |-> 0]
       \/ /\ active = <<>> /\ closed = <<>> /\ leaderboard = <<>> /\ trades = <<>>
          /\ holders = <<>>
          /\ portfolio \in [value : Values, positions_count : 0..MaxItems]
    /\ applied = "none"
    /\ stats = <<>>
    /\ NoRun
    /\ text = <<>>
    /\ fn = "none"
    /\ result = NotApplied
    /\ again = NotApplied
    /\ number = [neg |-> FALSE, cents |-> 0]
    /\ shown = [by |-> "none", str |-> <<>>]

\* trader_profitability computes its statistics
CalculateProfitability ==
    /\ applied = "none"
    /\ leaderboard = <<>> /\ trades = <<>> /\ holders = <<>>
    /\ applied' = "calculate_profitability"
    /\ stats' = calculate_profitability(active, closed)
    /\ UNCHANGED <<active, closed, leaderboard, trades, holders, portfolio,
                   fmtvars, pnlvars, runvars>>

\* analyze_trader computes its statistics
AnalyzeTrader ==
    /\ applied = "none"
    /\ leaderboard = <<>> /\ trades = <<>> /\ holders = <<>>
    /\ applied' = "analyze_trader"
    /\ stats' = analyze_trader(active, closed)
    /\ UNCHANGED <<active, closed, leaderboard, trades, holders, portfolio,
                   fmtvars, pnlvars, runvars>>

\* get_leaderboard prints its summary; it returns before that when the
\* list is empty
LeaderboardSummary ==
    /\ applied = "none"
    /\ leaderboard # <<>>
    /\ applied' = "get_leaderboard"
    /\ stats' = leaderboard_summary(leaderboard)
    /\ UNCHANGED <<active, closed, leaderboard, trades, holders, portfolio,
                   fmtvars, pnlvars, runvars>>

\* trade_analysis analyses the trades it fetched
AnalyzeTrades ==
    /\ applied = "none"
    /\ active = <<>> /\ closed = <<>> /\ leaderboard = <<>>
    /\ applied' = "analyze_trades"
    /\ stats' = analyze_trades(trades)
    /\ UNCHANGED <<active, closed, leaderboard, trades, holders, portfolio,
                   fmtvars, pnlvars, runvars>>

\* trade_analysis analyses the closed positions it fetched
AnalyzeClosedPositions ==
    /\ applied = "none"
    /\ active = <<>> /\ leaderboard = <<>> /\ trades = <<>>
    /\ applied' = "analyze_closed_positions"
    /\ stats' = analyze_closed_positions(closed)
    /\ UNCHANGED <<active, closed, leaderboard, trades, holders, portfolio,
                   fmtvars, pnlvars, runvars>>

\* trade_analysis displays the closed positions it analysed
DisplayAnalysis ==
    /\ applied = "analyze_closed_positions"
    /\ applied' = "display_analysis"
    /\ stats' = [closed_stats |-> stats, win_rates |-> display_win_rates(stats)]
    /\ UNCHANGED <<active, closed, leaderboard, trades, holders, portfolio,
                   fmtvars, pnlvars, runvars>>

\* get_market_holders prints the holders of a token; it skips a token
\* without holders
HolderPercentages ==
    /\ applied = "none"
    /\ holders # <<>>
    /\ applied' = "get_market_holders"
    /\ stats' = [percentages |-> holder_percentages(holders)]
    /\ UNCHANGED <<active, closed, leaderboard, trades, holders, portfolio,
                   fmtvars, pnlvars, runvars>>

\* get_portfolio_value --detailed prints its additional statistics
AveragePosition ==
    /\ applied = "none"
    /\ active = <<>> /\ closed = <<>> /\ leaderboard = <<>> /\ trades = <<>>
    /\ holders = <<>>
    /\ applied' = "get_portfolio_value"
    /\ stats' = [avg_position |->
                    average_position(portfolio.value, portfolio.positions_count)]
    /\ UNCHANGED <<active, closed, leaderboard, trades, holders, portfolio,
                   fmtvars, pnlvars, runvars>>

NextAgg ==
    \/ CalculateProfitability
    \/ AnalyzeTrader
    \/ LeaderboardSummary
    \/ AnalyzeTrades
    \/ AnalyzeClosedPositions
    \/ DisplayAnalysis
    \/ HolderPercentages
    \/ AveragePosition

SpecAgg == InitAgg /\ [][NextAgg]_vars

----------------------------------------------------------------------------
(* Claims about the validators, checked under SpecFmt *)

\* the two-character prefix in either case
HasPrefix(s) == Len(s) >= 2 /\ s[1] = "0" /\ s[2] \in {"x", "X"}

\* the string behind one optional leading prefix
Body(s) == IF HasPrefix(s) THEN SubSeq(s, 3, Len(s)) ELSE s

UpperHex == {"A", "B", "C", "D", "E", "F"}

IsHexString(s, chars) == \A i \in 1..Len(s) : s[i] \in chars

\* C1 (as stated): a validator accepts a non-empty input if and only if,
\* lowercased and with ONE optional leading 0x stripped, it is exactly N hex
\* digits; any other input, such as one with 0x elsewhere, is rejected.
C1_AcceptsIffOnePrefixStripped ==
    fn # "none" =>
        (result.ok <=>
            /\ text # <<>>
            /\ Len(Body(text)) = ExpectedLen(fn)
            /\ IsHexString(Lower(Body(text)), HexDigits))

\* C2: the validators are idempotent: applied to a value they returned they
\* succeed and return that value again.
C2_Idempotent ==
    again # NotApplied => (again.ok /\ again.value = result.value)

\* C2's case: a value was returned for an input that was not yet normal, and
\* the validator was applied to it again
C2_Witness == again.ok /\ text # result.value /\ fn = "address"

\* C3: N hex digits h in any letter case are accepted bare, behind 0x and
\* behind 0X, and each time the value returned is 0x followed by h lowercased.
C3_PrefixAndCaseAgnostic ==
    (/\ fn # "none"
     /\ Len(Body(text)) = ExpectedLen(fn)
     /\ IsHexString(Body(text), HexDigits \cup UpperHex))
    => result = Returned(<<"0", "x">> \o Lower(Body(text)))

\* C3's case: upper-case digits behind an upper-case prefix were accepted
C3_Witness ==
    /\ fn = "address"
    /\ HasPrefix(text) /\ text[2] = "X"
    /\ \E i \in 3..Len(text) : text[i] \in UpperHex
    /\ result.ok

\* C4: a value returned by format_address is 42 characters, 0x and 40
\* characters of 0-9a-f; one returned by format_condition_id is 66 characters
\* of the same shape.
C4_ResultShape ==
    (fn # "none" /\ result.ok) =>
        /\ fn = "address" => Len(result.value) = 42
        /\ fn = "condition" => Len(result.value) = 66
        /\ result.value[1] = "0" /\ result.value[2] = "x"
        /\ \A i \in 3..Len(result.value) : result.value[i] \in HexDigits

\* C4's case: a condition id with upper-case digits was accepted
C4_Witness ==
    /\ fn = "condition" /\ result.ok
    /\ \E i \in 1..Len(text) : text[i] \in UpperHex

LengthMessage == "Invalid length"
HexMessage == "contains invalid hex characters"

\* C5 (as stated): every rejected input, the empty string included, fails
\* with the length message or with the invalid-characters message; there is
\* no third message.
C5_TwoMessagesOnly ==
    (fn # "none" /\ ~result.ok) =>
        result.error.msg \in {LengthMessage, HexMessage}

\* C5 (amended): a rejected non-empty input fails with the length message,
\* which names the expected and the actual length, or with the
\* invalid-characters message; the empty string fails with a third message,
\* that the value is required.
C5_ThreeMessages ==
    (fn # "none" /\ ~result.ok) =>
        /\ text = <<>> => result.error.msg = "is required"
        /\ text # <<>> =>
            /\ result.error.msg \in {LengthMessage, HexMessage}
            /\ result.error.msg = LengthMessage =>
                /\ result.error.expected = ExpectedLen(fn)
                /\ result.error.len = Len(Clean(text))
                /\ result.error.len # result.error.expected

\* C5's case: the empty string was rejected
C5_Witness == fn = "condition" /\ text = <<>> /\ ~result.ok

\* C6: in format_address the length check comes first: a non-empty input
\* whose lowercased form without 0x is not 40 characters fails with the
\* length message whatever its characters, and the invalid-characters
\* message is given only when that form is 40 characters with a character
\* that is no hex digit.
C6_LengthBeforeHex ==
    (fn = "address" /\ text # <<>>) =>
        /\ Len(Clean(text)) # 40 =>
              (~result.ok /\ result.error.msg = LengthMessage)
        /\ (~result.ok /\ result.error.msg = HexMessage) =>
              (/\ Len(Clean(text)) = 40
               /\ \E i \in 1..40 : Clean(text)[i] \notin HexDigits)

\* C6's case: wrong length and a bad character at once, reported as length
C6_Witness ==
    /\ fn = "address"
    /\ Len(Clean(text)) # 40
    /\ \E i \in 1..Len(text) : text[i] = "g"
    /\ result.error.msg = LengthMessage

----------------------------------------------------------------------------
(* Claims about the display formatters, checked under SpecPnl *)

Last(s) == s[Len(s)]
Has(s, c) == \E i \in 1..Len(s) : s[i] = c

\* the digits of the absolute value, as either formatter writes them
AbsText(by, x) == Fixed2(Abs(x), by = "format_pnl")

\* C7 (as stated): format_pnl and format_percentage branch three ways on the
\* sign: a value > 0 gives a leading "+" and the positive marker, a value < 0
\* a leading "-" followed by the absolute value and the negative marker, and
\* a value equal to 0 a string with no sign and no marker.
C7_ThreeWayOnSign ==
    shown.by # "none" =>
        /\ Gt0(number) =>
              (shown.str[1] = "+" /\ Last(shown.str) = ChartUp)
        /\ Lt0(number) =>
              /\ shown.str[1] = "-"
              /\ Last(shown.str) = ChartDown
              /\ \E i \in 2..3 :
                    SubSeq(shown.str, i, i + Len(AbsText(shown.by, number)) - 1)
                        = AbsText(shown.by, number)
        /\ number.cents = 0 =>
              /\ ~Has(shown.str, "+") /\ ~Has(shown.str, "-")
              /\ ~Has(shown.str, ChartUp) /\ ~Has(shown.str, ChartDown)

----------------------------------------------------------------------------
(* Claims about the runs of the scripts, checked under Spec *)

\* the values a fetch helper hands back when it has no data
Defaults == {Default("None"), Default("[]"), Default("0")}

\* C8 (as stated): in every script a GET request that fails (network error,
\* timeout, non-2xx status) is caught where it is made and treated as no
\* data: it never ends the run as an unhandled exception, and the script goes
\* on with an empty or default result.
C8_FailuresAreCaught ==
    \A k \in DOMAIN replies :
        replies[k] \in Failures =>
            /\ crash = "none"
            /\ k \in DOMAIN fetched /\ fetched[k] \in Defaults

\* C9 (as stated): every failed GET request that a script catches is logged:
\* the script prints a message for it before it goes on.
C9_CaughtFailuresAreLogged ==
    \A k \in DOMAIN replies :
        (replies[k] \in Failures /\ k \in DOMAIN fetched) =>
            \E i \in DOMAIN console :
                console[i].kind = "fetch_error" /\ console[i].step = k

\* C10 (as stated): every GET request of every script carries a fixed,
\* finite timeout.
C10_EveryRequestHasTimeout ==
    \A k \in DOMAIN requests : requests[k].timeout # {}

\* the dataset a request asks for: the endpoint and every parameter but the
\* offset of the page
Dataset(r) ==
    [endpoint |-> r.endpoint, user |-> r.user, redeemable |-> r.redeemable,
     limit |-> r.limit]

\* C11: no script retries or paginates: within one run no two requests ask
\* for the same dataset (the same endpoint with the same parameters, or with
\* only another offset), so that a request that failed is never issued again.
C11_NoRetryNoPagination ==
    \A i, j \in DOMAIN requests :
        i # j => Dataset(requests[i]) # Dataset(requests[j])

\* a run went on to further requests after one of its requests had failed
C11_Witness ==
    \E k \in DOMAIN replies :
        replies[k] \in Failures /\ Len(requests) > k /\ pc = "exited"

\* the wallet address or condition id a command line supplies, None when it
\* supplies none
Supplied(s, a) ==
    CASE s = "get_leaderboard" -> None
      [] s = "get_market_holders" -> a.market
      [] s = "trade_analysis" -> IF Truthy(a.username) THEN a.username ELSE a.address
      [] s = "redeemable_parameter_demo" ->
            IF a.address = None THEN DemoAddress ELSE a.address
      [] OTHER -> a.address

\* what the script's validator makes of the supplied value
Validation(s, a) ==
    Validator(IF s = "get_market_holders" THEN "condition" ELSE "address",
              Supplied(s, a))

\* the run applies the validator to the supplied value and it is rejected
Rejected ==
    /\ Supplied(script, args) # None
    /\ ~(script = "get_user_positions" /\ args.active_only /\ args.include_payouts)
    /\ ~Validation(script, args).ok

\* C12 (as stated): in every script that takes a wallet address or condition
\* id, when the validator rejects the supplied value the script reports the
\* validation error to the user and the process exits with code 1, and no
\* HTTP request has been issued in that run.
C12_RejectedIsReportedThenExit1 ==
    Rejected =>
        /\ requests = <<>>
        /\ pc = "exited" =>
              /\ exit_code = 1
              /\ crash = "none"
              /\ \E i \in DOMAIN console :
                    /\ console[i].kind = "validation"
                    /\ console[i].error = Validation(script, args).error

\* C13: a run of trader_profitability with a valid address ends with exit
\* status 0 exactly when the total P&L computed from what the two fetches
\* returned is strictly positive, and with 1 otherwise (a loss or exact
\* break-even).
C13_ExitStatusIsProfitSignal ==
    (/\ script = "trader_profitability"
     /\ format_address(args.address).ok
     /\ pc = "exited") =>
        /\ Len(fetched) = 2
        /\ exit_code = IF total_pnl(fetched[1].items, fetched[2].items) > 0
                       THEN 0 ELSE 1

\* a run of trader_profitability that found positions adding up to exactly
\* nothing, and ended with status 1
C13_Witness ==
    /\ script = "trader_profitability"
    /\ pc = "exited"
    /\ Len(fetched) = 2
    /\ fetched[1].items # <<>>
    /\ SumField(fetched[1].items, "cashPnl") # 0
    /\ total_pnl(fetched[1].items, fetched[2].items) = 0
    /\ exit_code = 1

\* C17 (as stated): trade_analysis can be run with --username in place of
\* --address: it then makes its three analyses and prints the report, and
\* does not end on an error.
C17_UsernameRunsToReport ==
    (script = "trade_analysis" /\ Truthy(args.username) /\ pc = "exited") =>
        /\ crash = "none"
        /\ exit_code = 0
        /\ Len(requests) = 3

\* C18 (as stated): trader_profitability takes the leaderboard for its
\* primary method: every run with a valid address issues a GET request to
\* /v1/leaderboard.
C18_LeaderboardIsAsked ==
    (script = "trader_profitability" /\ format_address(args.address).ok
        /\ pc = "exited") =>
        \E k \in DOMAIN requests : requests[k].endpoint = "/v1/leaderboard"

\* C19: get_user_positions maps its flags onto the redeemable parameter:
\* --active-only sends redeemable=false, --include-payouts sends
\* redeemable=true, neither flag sends no redeemable parameter, and both
\* flags together end the process with status 1 before any request.
C19_FlagsToRedeemable ==
    script = "get_user_positions" =>
        IF args.active_only /\ args.include_payouts
        THEN /\ requests = <<>>
             /\ pc # "main" => (pc = "exited" /\ exit_code = 1)
        ELSE \A k \in DOMAIN requests :
                requests[k].redeemable =
                    IF args.active_only THEN "false"
                    ELSE IF args.include_payouts THEN "true"
                    ELSE "absent"

\* get_user_positions --active-only has sent its request
C19_Witness ==
    /\ script = "get_user_positions"
    /\ args.active_only /\ ~args.include_payouts
    /\ Len(requests) = 1
    /\ requests[1].redeemable = "false"

\* n is the lesser of the limit asked for and the maximum
LesserOf(n, asked, maximum) ==
    /\ n <= asked
    /\ n <= maximum
    /\ n = asked \/ n = maximum

\* C20: the limit that get_leaderboard sends is the lesser of the limit
\* asked for and 50, and the limit that get_market_holders sends is the
\* lesser of the limit asked for and 20, so that neither ever sends more
\* than the documented maximum.
C20_LimitIsClamped ==
    \A k \in DOMAIN requests :
        /\ script = "get_leaderboard" =>
              \E n \in requests[k].limit :
                  requests[k].limit = {n} /\ LesserOf(n, args.limit, 50)
        /\ script = "get_market_holders" =>
              \E n \in requests[k].limit :
                  requests[k].limit = {n} /\ LesserOf(n, args.limit, 20)

\* get_leaderboard was asked for more than 50 traders and has sent its
\* request
C20_Witness ==
    /\ script = "get_leaderboard"
    /\ args.limit > 50
    /\ Len(requests) = 1
    /\ requests[1].limit = {50}

\* get_market_holders was asked for more than 20 holders and has sent its
\* request
C20_WitnessHolders ==
    /\ script = "get_market_holders"
    /\ args.limit > 20
    /\ Len(requests) = 1
    /\ requests[1].limit = {20}

\* the greatest limit the documentation of a script states
DocumentedMax(s) ==
    CASE s = "get_user_positions" -> 500
      [] s = "get_user_activity" -> 500
      [] s = "get_user_trades" -> 10000

\* C21 (as stated): the limit that get_user_positions, get_user_activity
\* and get_user_trades send never exceeds the maximum their documentation
\* states (500, 500 and 10000), whatever --limit the user gives.
C21_LimitWithinDocumentedMax ==
    script \in {"get_user_positions", "get_user_activity", "get_user_trades"} =>
        \A k \in DOMAIN requests :
            \A n \in requests[k].limit : n <= DocumentedMax(script)

\* the pagination hints on the console
Hints == {i \in DOMAIN console : console[i].kind = "pagination_hint"}

\* C22: get_user_activity suggests pagination and does not perform it:
\* after it has displayed a non-empty result it prints the hint exactly when
\* the number of activities returned is at least the limit asked for, the
\* hint names the offset that is the current offset plus the limit, and no
\* further request is issued.
C22_HintInsteadOfNextPage ==
    /\ Hints # {} => (script = "get_user_activity" /\ pc = "exited")
    /\ (script = "get_user_activity" /\ pc = "exited" /\ Len(fetched) = 1
            /\ fetched[1].items # <<>>) =>
          /\ Hints # {} <=> Len(fetched[1].items) >= args.limit
          /\ \A i \in Hints : console[i].offset = args.offset + args.limit
          /\ Cardinality(Hints) <= 1
          /\ Len(requests) = 1
          /\ exit_code = 0

\* as many activities as were asked for came back from a later page, and
\* the hint names the page after it
C22_Witness ==
    /\ script = "get_user_activity"
    /\ pc = "exited"
    /\ args.offset > 0
    /\ Len(fetched) = 1
    /\ Len(fetched[1].items) = args.limit
    /\ \E i \in Hints : console[i].offset = args.offset + args.limit

\* C23 (as stated): run with no command-line argument,
\* redeemable_parameter_demo takes its first built-in example address and
\* carries out the three /positions queries for it: redeemable=false,
\* redeemable=true, and no redeemable parameter.
C23_DemoRunsOnBuiltInAddress ==
    (script = "redeemable_parameter_demo" /\ args.address = None
        /\ pc = "exited") =>
        /\ Len(requests) = 3
        /\ \A k \in DOMAIN requests : requests[k].endpoint = "/positions"
        /\ requests[1].redeemable = "false"
        /\ requests[2].redeemable = "true"
        /\ requests[3].redeemable = "absent"

\* the endpoints analyze_trader asks, in its order
FiveEndpoints == <<"/value", "/positions", "/closed-positions", "/trades", "/traded">>

\* C24: a run of analyze_trader with a valid address issues exactly five
\* GET requests, strictly in the order /value, /positions,
\* /closed-positions, /trades, /traded; each is issued only after the one
\* before it has returned or failed, and each later one is issued whether or
\* not an earlier one failed.
C24_FiveRequestsInOrder ==
    (script = "analyze_trader" /\ format_address(args.address).ok) =>
        /\ Len(requests) <= 5
        /\ \A k \in DOMAIN requests : requests[k].endpoint = FiveEndpoints[k]
        /\ Len(requests) = Len(replies) + (IF pc = "waiting" THEN 1 ELSE 0)
        /\ pc = "exited" => (Len(requests) = 5 /\ crash = "none")

\* analyze_trader has ended after its first and its third request failed
C24_Witness ==
    /\ script = "analyze_trader"
    /\ pc = "exited"
    /\ Len(requests) = 5
    /\ replies[1] \in Failures
    /\ replies[3] \in Failures
    /\ replies[5] = "ok"

----------------------------------------------------------------------------
(* Claims about the aggregations, checked under SpecAgg *)

\* the places of a list whose field is exactly 0 or missing
Even(items, field) ==
    {i \in DOMAIN items : field \notin DOMAIN items[i] \/ items[i][field] = 0}

\* C14: in calculate_profitability and in analyze_trader the win and loss
\* counts partition the positions: over the active positions (by cashPnl)
\* and over the closed positions (by realizedPnl), the number of winning
\* plus the number of losing plus the number whose P&L is exactly 0 or
\* missing is the number of positions examined, and no position is counted
\* as both winning and losing.
C14_WinLossPartition ==
    applied \in {"calculate_profitability", "analyze_trader"} =>
        LET wa == IF applied = "analyze_trader"
                  THEN Get(stats, "winning_positions", 0) ELSE stats.winning_active
            la == IF applied = "analyze_trader"
                  THEN Get(stats, "losing_positions", 0) ELSE stats.losing_active
            wc == Get(stats, "winning_closed", 0)
            lc == Get(stats, "losing_closed", 0)
        IN  /\ wa + la + Cardinality(Even(active, "cashPnl")) = Len(active)
            /\ wc + lc + Cardinality(Even(closed, "realizedPnl")) = Len(closed)
            /\ Winning(active, "cashPnl") \cap Losing(active, "cashPnl") = {}
            /\ Winning(closed, "realizedPnl") \cap Losing(closed, "realizedPnl") = {}
            /\ wa = Cardinality(Winning(active, "cashPnl"))
            /\ la = Cardinality(Losing(active, "cashPnl"))
            /\ applied = "calculate_profitability" =>
                  /\ stats.total_winning = wa + wc
                  /\ stats.total_losing = la + lc
                  /\ stats.total_winning + stats.total_losing
                        + Cardinality(Even(active, "cashPnl"))
                        + Cardinality(Even(closed, "realizedPnl"))
                     = stats.total_positions

\* statistics over a winning, a losing and a break-even position at once
C14_Witness ==
    /\ applied \in {"calculate_profitability", "analyze_trader"}
    /\ Winning(active, "cashPnl") # {}
    /\ Losing(active, "cashPnl") # {}
    /\ Even(closed, "realizedPnl") # {}
    /\ \E i \in DOMAIN closed : "realizedPnl" \notin DOMAIN closed[i]

\* C15: when the active and the closed list are both empty,
\* calculate_profitability and analyze_trader compute an unrealized, a
\* realized and a total P&L of 0, a win rate of 0 (calculate_profitability)
\* or none at all (analyze_trader), the break-even verdict, and
\* is_profitable false.
C15_NothingHeldIsBreakEven ==
    (applied \in {"calculate_profitability", "analyze_trader"}
        /\ active = <<>> /\ closed = <<>>) =>
        /\ stats.total_pnl = 0
        /\ stats.is_profitable = FALSE
        /\ stats.verdict = "BREAK EVEN"
        /\ applied = "calculate_profitability" =>
              /\ stats.unrealized_pnl = 0
              /\ stats.realized_pnl = 0
              /\ stats.win_rate.num = 0
              /\ stats.total_positions = 0
        /\ applied = "analyze_trader" =>
              /\ Get(stats, "total_unrealized_pnl", 0) = 0
              /\ stats.total_realized_pnl = 0
              /\ "win_rate" \notin DOMAIN stats

\* analyze_trader has computed its statistics from two empty lists
C15_Witness ==
    applied = "analyze_trader" /\ active = <<>> /\ closed = <<>>
        /\ leaderboard = <<>> /\ "total_pnl" \in DOMAIN stats

\* the pnl an entry contributes: its pnl field, 0 when it has none
Contribution(entry) == IF "pnl" \in DOMAIN entry THEN entry["pnl"] ELSE 0

RECURSIVE SumOfFirst(_, _)
\* what the first n entries contribute together
SumOfFirst(entries, n) ==
    IF n = 0 THEN 0
    ELSE SumOfFirst(entries, n - 1) + Contribution(entries[n])

\* C16: for every non-empty leaderboard list the Total P&L that
\* get_leaderboard reports is the sum of the pnl fields of all entries, an
\* entry without pnl contributing 0; entries with pnl 10, -5 and 0 give the
\* total 5, printed as +$5.00 with the rising chart.
C16_TotalIsSumOfPnl ==
    applied = "get_leaderboard" =>
        /\ leaderboard # <<>>
        /\ stats.total_pnl = SumOfFirst(leaderboard, Len(leaderboard))
        /\ stats.total_line = format_pnl(Dollars(stats.total_pnl))
        /\ leaderboard = <<[pnl |-> 10], [pnl |-> -5], [pnl |-> 0]>> =>
              /\ stats.total_pnl = 5
              /\ stats.total_line = <<"+", "$", "5", ".", "0", "0", " ", ChartUp>>

\* the summary of a leaderboard with pnl 10, -5 and 0
C16_Witness ==
    /\ applied = "get_leaderboard"
    /\ leaderboard = <<[pnl |-> 10], [pnl |-> -5], [pnl |-> 0]>>
    /\ stats.total_pnl = 5

\* the summary of a leaderboard with an entry that has no pnl
C16_WitnessMissing ==
    /\ applied = "get_leaderboard"
    /\ \E i \in DOMAIN leaderboard : "pnl" \notin DOMAIN leaderboard[i]
    /\ stats.total_pnl # 0

\* the places in trades of the trades of market m with the given side
TradesIn(m, side) ==
    {i \in DOMAIN trades :
        /\ "conditionId" \in DOMAIN trades[i]
        /\ trades[i]["conditionId"] = m
        /\ trades[i]["side"] = side}

RECURSIVE SumAt(_, _)
\* the sum of a field over the trades at the given places
SumAt(places, field) ==
    IF places = {} THEN 0
    ELSE LET i == CHOOSE i \in places : TRUE
         IN  trades[i][field] + SumAt(places \ {i}, field)

\* market m has a BUY and a SELL, and the mean SELL price is strictly below
\* the mean BUY price
BoughtHighSoldLow(m) ==
    LET B == TradesIn(m, "BUY")
        S == TradesIn(m, "SELL")
    IN  /\ B # {} /\ S # {}
        /\ SumAt(S, "price") * Cardinality(B) < SumAt(B, "price") * Cardinality(S)

\* entry e reports market m: its counts, and its loss of (mean buy price -
\* mean sell price) times the smaller of the size bought and the size sold
Reports(e, m) ==
    LET B == TradesIn(m, "BUY")
        S == TradesIn(m, "SELL")
        smaller == IF SumAt(B, "size") < SumAt(S, "size")
                   THEN SumAt(B, "size") ELSE SumAt(S, "size")
    IN  /\ e.buy_count = Cardinality(B)
        /\ e.sell_count = Cardinality(S)
        /\ e.loss.den > 0
        /\ e.loss.num * Cardinality(B) * Cardinality(S)
             = e.loss.den * smaller
                 * (SumAt(B, "price") * Cardinality(S)
                      - SumAt(S, "price") * Cardinality(B))

\* C25: analyze_trades reports a market as a failed trade exactly when the
\* fetched trades with its conditionId include a BUY and a SELL and the
\* unweighted mean SELL price is strictly below the unweighted mean BUY
\* price; the loss reported is (mean buy price - mean sell price) times the
\* smaller of the size bought and the size sold; a trade without
\* conditionId counts in total_trades and belongs to no market.
C25_FailedTrades ==
    applied = "analyze_trades" =>
        LET failed == {m \in {"m1", "m2"} : BoughtHighSoldLow(m)}
            traded == {m \in {"m1", "m2"} :
                          TradesIn(m, "BUY") \cup TradesIn(m, "SELL") # {}}
        IN  /\ Len(stats.failed_trades) = Cardinality(failed)
            /\ \A m \in failed :
                  \E k \in DOMAIN stats.failed_trades :
                      Reports(stats.failed_trades[k], m)
            /\ \A k \in DOMAIN stats.failed_trades :
                  \E m \in failed : Reports(stats.failed_trades[k], m)
            /\ stats.total_trades = Len(trades)
            /\ stats.markets_traded = Cardinality(traded)

\* one market bought at a mean of 1.5 and sold at 1 is reported; the trade
\* without conditionId is in no market
C25_Witness ==
    /\ applied = "analyze_trades"
    /\ Len(stats.failed_trades) = 1
    /\ stats.failed_trades[1].buy_count = 2
    /\ stats.failed_trades[1].loss.num = stats.failed_trades[1].loss.den
    /\ stats.markets_traded = 1

\* a market bought and sold at the same mean price is not reported, next
\* to a trade without conditionId
C25_WitnessEven ==
    /\ applied = "analyze_trades"
    /\ stats.failed_trades = <<>>
    /\ stats.total_trades = 3
    /\ stats.markets_traded = 1
    /\ \E i \in DOMAIN trades : "conditionId" \notin DOMAIN trades[i]
    /\ TradesIn("m1", "BUY") # {} /\ TradesIn("m1", "SELL") # {}

\* the realizedPnl of the closed position at place i, 0 when it has none
Realized(i) ==
    IF "realizedPnl" \in DOMAIN closed[i] THEN closed[i]["realizedPnl"] ELSE 0

RECURSIVE RealizedOver(_)
\* the sum of realizedPnl over the closed positions at the given places
RealizedOver(places) ==
    IF places = {} THEN 0
    ELSE LET i == CHOOSE i \in places : TRUE
         IN  Realized(i) + RealizedOver(places \ {i})

Dens(s) == {s[i].den : i \in DOMAIN s}

\* the denominators of all the quotients an aggregation has computed
Denominators ==
    CASE applied = "calculate_profitability" -> {stats.win_rate.den}
      [] applied = "analyze_trader" ->
            IF "win_rate" \in DOMAIN stats THEN {stats.win_rate.den} ELSE {}
      [] applied = "analyze_trades" ->
            UNION {{stats.failed_trades[k].avg_buy.den,
                    stats.failed_trades[k].avg_sell.den,
                    stats.failed_trades[k].loss.den} :
                        k \in DOMAIN stats.failed_trades}
      [] applied = "display_analysis" -> Dens(stats.win_rates)
      [] applied = "get_market_holders" -> Dens(stats.percentages)
      [] applied = "get_portfolio_value" -> Dens(stats.avg_position)
      [] OTHER -> {}

\* C27: no script divides by zero: every average, win rate and holder
\* percentage is computed only with a strictly positive denominator,
\* whatever the responses hold, empty lists and amounts that are all 0
\* included.
C27_NoDivisionByZero ==
    \A d \in Denominators : d > 0

\* the percentages of holders whose amounts are all 0
C27_Witness ==
    /\ applied = "get_market_holders"
    /\ Len(holders) = 2
    /\ \A i \in DOMAIN holders : Get(holders[i], "amount", 0) = 0
    /\ \A i \in DOMAIN stats.percentages : stats.percentages[i].num = 0

\* the win rate of trader_profitability over no position at all
C27_WitnessNoPositions ==
    /\ applied = "calculate_profitability"
    /\ active = <<>> /\ closed = <<>>
    /\ stats.win_rate.num = 0

====
